---- MODULE Spec2Model ----
(***************************************************************************)
(* Model of src/src/model/preprocessing.py: the configuration-driven       *)
(* PreProcessor (configuration normalisation, action-plan compilation,     *)
(* pipeline assembly, fit, transform, type casting) and the elementary     *)
(* transforms it assembles.                                                *)
(*                                                                         *)
(* Python values are tagged records, so that any two of them compare:      *)
(*   a number is an exact rational  [k |-> "num", n |-> _, d |-> _],       *)
(*   a missing entry (NaN) is       [k |-> "nan"],                         *)
(*   a string is the sequence of its lexical pieces                        *)
(*                                  [k |-> "str", s |-> <<...>>]           *)
(*   (":" is always a piece of its own; a type label is spelled by         *)
(*   characters), a list is         [k |-> "list", items |-> <<...>>].     *)
(* A dict is the sequence of its (key, value) entries in insertion order.  *)
(* A table (DataFrame) is the sequence of its columns, each a record       *)
(* [name, values].                                                         *)
(***************************************************************************)
EXTENDS Integers, Sequences, FiniteSets, TLC

VARIABLES features_config, feature_names, feature_active, feature_types,
          preprocessor, last, fitted_on

vars == <<features_config, feature_names, feature_active, feature_types,
          preprocessor, last, fitted_on>>

(***************************************************************************)
(* Generic sequence helpers                                                *)
(***************************************************************************)
RECURSIVE Concat(_)
Concat(ss) == IF ss = <<>> THEN <<>> ELSE Head(ss) \o Concat(Tail(ss))

Range(s) == {s[i] : i \in 1..Len(s)}

RECURSIVE UniqueFrom(_, _)
UniqueFrom(s, seen) ==
  IF s = <<>> THEN <<>>
  ELSE IF Head(s) \in seen THEN UniqueFrom(Tail(s), seen)
       ELSE <<Head(s)>> \o UniqueFrom(Tail(s), seen \cup {Head(s)})

\* pandas Series.unique(): the distinct values in order of first appearance
Unique(s) == UniqueFrom(s, {})

\* list.index(x): 0-based position of the first occurrence
IndexOf(s, x) == (CHOOSE i \in 1..Len(s) : s[i] = x /\ \A j \in 1..(i-1) : s[j] # x) - 1

(***************************************************************************)
(* Python values                                                           *)
(***************************************************************************)
Abs(i) == IF i < 0 THEN -i ELSE i

RECURSIVE Gcd(_, _)
Gcd(a, b) == IF b = 0 THEN a ELSE Gcd(b, a % b)

\* the rational n/d in lowest terms, d > 0
Num(n, d) ==
  LET g == Gcd(Abs(n), Abs(d))
      sg == IF d < 0 THEN -1 ELSE 1
  IN [k |-> "num", n |-> (sg * n) \div g, d |-> (sg * d) \div g]

IntV(i) == [k |-> "num", n |-> i, d |-> 1]
NaN == [k |-> "nan"]
None == [k |-> "none"]
Bool(b) == [k |-> "bool", b |-> b]
Str(pieces) == [k |-> "str", s |-> pieces]
List(items) == [k |-> "list", items |-> items]
Dict(entries) == [k |-> "dict", items |-> entries]
Table(columns) == [k |-> "table", columns |-> columns]

IsNum(v) == v.k = "num"
IsNaN(v) == v.k = "nan"

Add(x, y) == Num(x.n * y.d + y.n * x.d, x.d * y.d)
Sub(x, y) == Num(x.n * y.d - y.n * x.d, x.d * y.d)
Mul(x, y) == Num(x.n * y.n, x.d * y.d)
Div(x, y) == Num(x.n * y.d, x.d * y.n)
Less(x, y) == x.n * y.d < y.n * x.d
Leq(x, y) == x.n * y.d <= y.n * x.d

(***************************************************************************)
(* dict: insertion-ordered (key, value) entries                            *)
(***************************************************************************)
Entry(key, value) == [key |-> key, value |-> value]

Keys(dict) == [i \in 1..Len(dict) |-> dict[i].key]

HasKey(dict, key) == \E i \in 1..Len(dict) : dict[i].key = key

Get(dict, key) == dict[CHOOSE i \in 1..Len(dict) : dict[i].key = key].value

\* dict[key] = value / dict.update({key: value}): an existing key keeps its place
DictSet(dict, key, value) ==
  IF HasKey(dict, key)
  THEN [i \in 1..Len(dict) |->
          IF dict[i].key = key THEN Entry(key, value) ELSE dict[i]]
  ELSE Append(dict, Entry(key, value))

RECURSIVE DictFromList(_, _)
DictFromList(entries, acc) ==
  IF entries = <<>> THEN acc
  ELSE DictFromList(Tail(entries), DictSet(acc, Head(entries).key, Head(entries).value))

(***************************************************************************)
(* PreProcessor.__interpret_config                                         *)
(***************************************************************************)
\* a normalization that writes active = True into every config
NormalizeConfig_Overwrite(config) == DictSet(config, "active", Bool(TRUE))

\* lines 866-868: every config without "active" gets active = True appended
NormalizeConfig(config) ==
  IF HasKey(config, "active") THEN config
  ELSE DictSet(config, "active", Bool(TRUE))

NormalizedConfigs(cfgs) == [j \in 1..Len(cfgs) |-> NormalizeConfig(cfgs[j])]

\* line 870
FeatureNamesOf(cfgs) == [j \in 1..Len(cfgs) |-> Get(cfgs[j], "name")]

\* lines 872-874
FeatureActiveOf(cfgs) ==
  DictFromList([j \in 1..Len(cfgs) |->
                  Entry(Get(cfgs[j], "name"), Get(cfgs[j], "active"))], <<>>)

\* lines 876-878
FeatureTypesOf(cfgs) ==
  DictFromList([j \in 1..Len(cfgs) |->
                  Entry(Get(cfgs[j], "name"), Get(cfgs[j], "type"))], <<>>)

(***************************************************************************)
(* PreProcessor.__create_action_plan                                       *)
(***************************************************************************)
\* lines 894-900: the keys that never become a plan row
\* a filter that takes polynomial_degree for a step
ReservedKeys_NoDegree == {"name", "active", "type", "encode"}

ReservedKeys == {"name", "active", "type", "encode", "polynomial_degree"}

\* a filter that lets encode and polynomial_degree through
StepKeys_Unfiltered(config) ==
  SelectSeq(Keys(config), LAMBDA key : key \notin {"name", "active", "type"})

\* lines 890-903: the remaining keys of a config, in the config's key order
StepKeys(config) == SelectSeq(Keys(config), LAMBDA key : key \notin ReservedKeys)

Row(fo, name, active, type, to, key, value) ==
  [feature_order |-> fo, feature_name |-> name, active |-> active, type |-> type,
   transform_order |-> to, key |-> key, value |-> value]

\* lines 885-915: one row per (feature j, step i), both 0-based
FlattenedRows(cfgs) ==
  Concat([j \in 1..Len(cfgs) |->
    LET config == cfgs[j]
        ks == StepKeys(config)
    IN [i \in 1..Len(ks) |->
          Row(j - 1, Get(config, "name"), Get(config, "active"),
              Get(config, "type"), i - 1, ks[i], Get(config, ks[i]))]])

\* lines 931-943: the synthesized row
IdentityRow(names, active, types, col, order) ==
  Row(IndexOf(names, col), col, Get(active, col), Get(types, col), order,
      "transformation", Str(<<"identity">>))

\* a padding loop that synthesizes nothing
PadOne_NoPad(df, names, active, types, order, col) == df

\* lines 919-945: one (order, col) iteration of the padding loop
PadOne(df, names, active, types, order, col) ==
  IF \A r \in 1..Len(df) :
       ~(df[r].feature_name = col /\ df[r].transform_order = order)
  THEN Append(df, IdentityRow(names, active, types, col, order))
  ELSE df

RECURSIVE PadCols(_, _, _, _, _, _)
PadCols(df, names, active, types, order, cols) ==
  IF cols = <<>> THEN df
  ELSE PadCols(PadOne(df, names, active, types, order, Head(cols)),
               names, active, types, order, Tail(cols))

\* lines 917-945
RECURSIVE PadOrders(_, _, _, _, _)
PadOrders(df, names, active, types, orders) ==
  IF orders = <<>> THEN df
  ELSE PadOrders(PadCols(df, names, active, types, Head(orders), names),
                 names, active, types, Tail(orders))

RowBefore(r1, r2) ==
  \/ r1.transform_order < r2.transform_order
  \/ /\ r1.transform_order = r2.transform_order
     /\ r1.feature_order < r2.feature_order

RECURSIVE InsertRow(_, _)
InsertRow(sorted, r) ==
  IF sorted = <<>> THEN <<r>>
  ELSE IF RowBefore(r, Head(sorted)) THEN <<r>> \o sorted
       ELSE <<Head(sorted)>> \o InsertRow(Tail(sorted), r)

RECURSIVE SortRows(_)
\* line 947: sort_values(["transform_order", "feature_order"]) (stable)
SortRows(df) ==
  IF df = <<>> THEN <<>>
  ELSE InsertRow(SortRows(SubSeq(df, 1, Len(df) - 1)), df[Len(df)])

TransformOrders(df) == Unique([r \in 1..Len(df) |-> df[r].transform_order])

\* lines 880-949, on the normalized configuration and the indexes of
\* __interpret_config
create_action_plan(cfgs, names, active, types) ==
  LET df == FlattenedRows(cfgs)
  IN SortRows(PadOrders(df, names, active, types, TransformOrders(df)))

(***************************************************************************)
(* Strings: str(value), str.split(":"), str.lower(), "int" in s, float(s), *)
(* int(s)                                                                  *)
(***************************************************************************)
\* str(value): a string is itself; any other value prints as one piece
\* that holds no ":" and is no strategy name
StrOf(value) == IF value.k = "str" THEN value.s ELSE <<ToString(value)>>

RECURSIVE SplitFrom(_, _, _)
SplitFrom(pieces, sep, cur) ==
  IF pieces = <<>> THEN <<cur>>
  ELSE IF Head(pieces) = sep THEN <<cur>> \o SplitFrom(Tail(pieces), sep, <<>>)
       ELSE SplitFrom(Tail(pieces), sep, Append(cur, Head(pieces)))

\* s.split(sep): the parts between the separators, at least one part
Split(pieces, sep) == SplitFrom(pieces, sep, <<>>)

LowerChar(c) ==
  CASE c = "I" -> "i" [] c = "N" -> "n" [] c = "T" -> "t" [] c = "F" -> "f"
    [] c = "S" -> "s" [] c = "O" -> "o" [] OTHER -> c

Lower(chars) == [i \in 1..Len(chars) |-> LowerChar(chars[i])]

\* sub in chars
Contains(chars, sub) ==
  \E i \in 0..(Len(chars) - Len(sub)) : SubSeq(chars, i + 1, i + Len(sub)) = sub

DigitChars == {"0", "1", "2", "3", "4", "5", "6", "7", "8", "9"}

DigitVal(c) ==
  CASE c = "0" -> 0 [] c = "1" -> 1 [] c = "2" -> 2 [] c = "3" -> 3 [] c = "4" -> 4
    [] c = "5" -> 5 [] c = "6" -> 6 [] c = "7" -> 7 [] c = "8" -> 8 [] c = "9" -> 9

AllDigits(chars) == chars # <<>> /\ \A i \in 1..Len(chars) : chars[i] \in DigitChars

RECURSIVE DigitsVal(_, _)
DigitsVal(chars, acc) ==
  IF chars = <<>> THEN acc ELSE DigitsVal(Tail(chars), 10 * acc + DigitVal(Head(chars)))

RECURSIVE Pow10(_)
Pow10(e) == IF e = 0 THEN 1 ELSE 10 * Pow10(e - 1)

Unsigned(chars) == IF chars # <<>> /\ Head(chars) \in {"-", "+"} THEN Tail(chars) ELSE chars

SignOf(chars) == IF chars # <<>> /\ Head(chars) = "-" THEN -1 ELSE 1

\* int(s) accepts an optionally signed run of digits
IsIntLiteral(chars) == AllDigits(Unsigned(chars))

ParseInt(chars) == SignOf(chars) * DigitsVal(Unsigned(chars), 0)

\* float(s) accepts digits with at most one "." among them (and the sign)
IsFloatLiteral(chars) ==
  LET u == Unsigned(chars)
      parts == Split(u, ".")
  IN /\ Len(parts) \in {1, 2}
     /\ \A i \in 1..Len(parts) : \A j \in 1..Len(parts[i]) : parts[i][j] \in DigitChars
     /\ \E i \in 1..Len(parts) : parts[i] # <<>>

ParseFloat(chars) ==
  LET u == Unsigned(chars)
      parts == Split(u, ".")
      frac == IF Len(parts) = 2 THEN parts[2] ELSE <<>>
  IN Num(SignOf(chars) * (DigitsVal(parts[1], 0) * Pow10(Len(frac)) + DigitsVal(frac, 0)),
         Pow10(Len(frac)))

(***************************************************************************)
(* Results: a returned value, or a raised exception                        *)
(***************************************************************************)
Ok(val) == [ok |-> TRUE, val |-> val]
Raise(err, at) == [ok |-> FALSE, err |-> err, at |-> at]

\* the statement after a call: it runs on the returned value, and an
\* exception of the call propagates instead
Then(r, F(_)) == IF r.ok THEN F(r.val) ELSE r

(***************************************************************************)
(* The transformer objects and their constructors                          *)
(***************************************************************************)
\* class Identity, lines 24-38
NewIdentity == [cls |-> "Identity"]

TransformationNames == {"log", "log10", "log1p", "exp", "square", "sqrt", "identity"}

\* a one-piece string's piece, "" for anything else
Word(value) == IF value.k = "str" /\ Len(value.s) = 1 THEN value.s[1] ELSE ""

\* an interpretation that takes an unknown name for the identity
interpret_transformation_Lenient(transformation) ==
  IF Word(transformation) \in TransformationNames
  THEN Ok(Word(transformation))
  ELSE Ok("identity")

\* FeatureTransformer.__interpret_transformation, lines 223-262: the name of
\* the numpy function, or ValueError
interpret_transformation(transformation) ==
  IF Word(transformation) \in TransformationNames
  THEN Ok(Word(transformation))
  ELSE Raise("ValueError", "FeatureTransformer.__interpret_transformation")

\* FeatureTransformer.__init__, lines 156-159
NewFeatureTransformer(transformation) ==
  Then(interpret_transformation(transformation), LAMBDA f :
    Ok([cls |-> "FeatureTransformer", transformation |-> transformation,
        transformer |-> f]))

\* FeatureClipper.__init__, lines 282-284
NewFeatureClipper(limits) == [cls |-> "FeatureClipper", limits |-> limits]

\* FeatureImputer.__init__, lines 365-371
NewFeatureImputer(strategy, parameter) ==
  [cls |-> "FeatureImputer", strategy |-> strategy, parameter |-> parameter,
   imputer |-> None]

\* FeatureImputer.__interpret_imputation, lines 430-461
interpret_imputation(imputation, param) ==
  IF imputation = "mean" THEN [cls |-> "SimpleImputer", strategy |-> "mean",
                               fill_value |-> None, statistics |-> None]
  ELSE IF imputation = "median" THEN [cls |-> "SimpleImputer", strategy |-> "median",
                                      fill_value |-> None, statistics |-> None]
  ELSE IF imputation = "constant" THEN [cls |-> "SimpleImputer", strategy |-> "constant",
                                        fill_value |-> param, statistics |-> None]
  ELSE NewIdentity

\* FeatureScaler.__interpret_scaler, lines 540-567
interpret_scaler(scaler) ==
  IF Word(scaler) = "min_max" THEN [cls |-> "MinMaxScaler", fitted |-> None]
  ELSE IF Word(scaler) = "standard" THEN [cls |-> "StandardScaler", fitted |-> None]
  ELSE IF Word(scaler) = "robust" THEN [cls |-> "RobustScaler", fitted |-> None]
  ELSE IF scaler = None THEN NewIdentity
  ELSE NewIdentity

\* FeatureScaler.__init__, lines 478-481
NewFeatureScaler(strategy) ==
  [cls |-> "FeatureScaler", strategy |-> strategy, scaler |-> interpret_scaler(strategy)]

\* FeatureWeigher.__init__, lines 582-584
NewFeatureWeigher(weight) == [cls |-> "FeatureWeigher", weight |-> weight]

\* FeatureDiscretizer.__init__, lines 656-663
NewFeatureDiscretizer(n_bins, strategy) ==
  [cls |-> "FeatureDiscretizer", strategy |-> strategy, n_bins |-> n_bins,
   value_maps |-> List(<<>>),
   discretizer |-> [cls |-> "KBinsDiscretizer", strategy |-> strategy,
                    n_bins |-> n_bins, bin_edges |-> None]]

(***************************************************************************)
(* PreProcessor.__interpret_process_step, lines 999-1036                   *)
(***************************************************************************)
StringTypes == {<<"s", "t", "r", "i", "n", "g">>, <<"s", "t", "r">>,
                <<"o", "b", "j", "e", "c", "t">>}

\* lines 1006-1018
interpret_imputation_step(value, type_) ==
  LET parts == Split(StrOf(value), ":")
      strategy == parts[1]
      param == Tail(parts)
  IN IF strategy = <<"constant">>
     THEN IF param = <<>>
          THEN Raise("IndexError", "PreProcessor.__interpret_process_step")
          ELSE IF type_.k = "str" /\ type_.s \in StringTypes
               THEN Ok(NewFeatureImputer("constant", Str(param[1])))
               ELSE IF IsFloatLiteral(param[1])
                    THEN Ok(NewFeatureImputer("constant", ParseFloat(param[1])))
                    ELSE Raise("ValueError", "PreProcessor.__interpret_process_step")
     ELSE Ok(NewFeatureImputer("constant", None))

\* lines 1020-1026
interpret_discretizer_step(value) ==
  LET parts == Split(StrOf(value), ":")
  IN IF Len(parts) # 2
     THEN Raise("ValueError", "PreProcessor.__interpret_process_step")
     ELSE IF ~IsIntLiteral(parts[2])
          THEN Raise("ValueError", "PreProcessor.__interpret_process_step")
          ELSE Ok(NewFeatureDiscretizer(ParseInt(parts[2]), Str(parts[1])))

\* an interpreter that rejects a key it does not know
interpret_process_step_Strict(key, value, type_) ==
  IF key = "transformation" THEN NewFeatureTransformer(value)
  ELSE IF key = "limits" THEN Ok(NewFeatureClipper(value))
  ELSE IF key = "imputation_strategy" THEN interpret_imputation_step(value, type_)
  ELSE IF key = "discretizer" THEN interpret_discretizer_step(value)
  ELSE IF key = "scaler" THEN Ok(NewFeatureScaler(value))
  ELSE IF key = "weight" THEN Ok(NewFeatureWeigher(value))
  ELSE Raise("KeyError", "PreProcessor.__interpret_process_step")

\* lines 999-1036
interpret_process_step(key, value, type_) ==
  IF key = "transformation" THEN NewFeatureTransformer(value)
  ELSE IF key = "limits" THEN Ok(NewFeatureClipper(value))
  ELSE IF key = "imputation_strategy" THEN interpret_imputation_step(value, type_)
  ELSE IF key = "discretizer" THEN interpret_discretizer_step(value)
  ELSE IF key = "scaler" THEN Ok(NewFeatureScaler(value))
  ELSE IF key = "weight" THEN Ok(NewFeatureWeigher(value))
  ELSE Ok(NewIdentity)


(***************************************************************************)
(* Cells of a numeric column.  A result that is no rational (log 2, an     *)
(* infinity) is kept as the term of the operation that produced it.        *)
(***************************************************************************)
Irr(op, args) == [k |-> "irr", op |-> op, args |-> args]

Zero == IntV(0)
One == IntV(1)

\* float arithmetic: NaN propagates
Arith(op, x, y) ==
  IF IsNaN(x) \/ IsNaN(y) THEN NaN
  ELSE IF IsNum(x) /\ IsNum(y) /\ ~(op = "div" /\ y.n = 0)
       THEN CASE op = "add" -> Add(x, y) [] op = "sub" -> Sub(x, y)
              [] op = "mul" -> Mul(x, y) [] op = "div" -> Div(x, y)
       ELSE Irr(op, <<x, y>>)

IsSquare(i) == \E r \in 0..i : r * r = i
ISqrt(i) == CHOOSE r \in 0..i : r * r = i

\* the numpy functions of lines 238-257, elementwise
ApplyFunction(name, x) ==
  IF IsNaN(x) THEN NaN
  ELSE IF ~IsNum(x) THEN Irr(name, <<x>>)
  ELSE CASE name = "identity" -> x
         [] name = "square" -> Mul(x, x)
         [] name = "sqrt" ->
              IF x.n < 0 THEN NaN
              ELSE IF IsSquare(x.n) /\ IsSquare(x.d) THEN Num(ISqrt(x.n), ISqrt(x.d))
              ELSE Irr(name, <<x>>)
         [] name = "log" ->
              IF x.n < 0 THEN NaN ELSE IF x = One THEN Zero ELSE Irr(name, <<x>>)
         [] name = "log10" ->
              IF x.n < 0 THEN NaN ELSE IF x = One THEN Zero ELSE Irr(name, <<x>>)
         [] name = "log1p" ->
              IF Less(x, IntV(-1)) THEN NaN ELSE IF x = Zero THEN Zero ELSE Irr(name, <<x>>)
         [] name = "exp" -> IF x = Zero THEN One ELSE Irr(name, <<x>>)

NonMissing(col) == SelectSeq(col, LAMBDA v : ~IsNaN(v))
AllNum(col) == \A i \in 1..Len(col) : IsNum(col[i])

RECURSIVE SumOf(_)
SumOf(col) == IF col = <<>> THEN Zero ELSE Add(Head(col), SumOf(Tail(col)))

RECURSIVE InsertNum(_, _)
InsertNum(sorted, x) ==
  IF sorted = <<>> THEN <<x>>
  ELSE IF Less(x, Head(sorted)) THEN <<x>> \o sorted
       ELSE <<Head(sorted)>> \o InsertNum(Tail(sorted), x)

RECURSIVE SortNums(_)
SortNums(col) == IF col = <<>> THEN <<>> ELSE InsertNum(SortNums(Tail(col)), Head(col))

\* numpy percentile (linear interpolation) of a sorted, non-empty sequence
Percentile(sorted, q) ==
  LET pos == Num((Len(sorted) - 1) * q, 100)
      lo == pos.n \div pos.d
      frac == Sub(pos, IntV(lo))
  IN IF lo + 1 >= Len(sorted) THEN sorted[Len(sorted)]
     ELSE Add(sorted[lo + 1], Mul(frac, Sub(sorted[lo + 2], sorted[lo + 1])))

\* a statistic of the non-missing entries: NaN when there is none, a term
\* when an entry is no rational
Statistic(name, col) ==
  LET xs == NonMissing(col)
      s == SortNums(xs)
      mean == Div(SumOf(xs), IntV(Len(xs)))
  IN IF xs = <<>> THEN NaN
     ELSE IF ~AllNum(xs) THEN Irr(name, xs)
     ELSE CASE name = "mean" -> mean
            [] name = "median" -> Percentile(s, 50)
            [] name = "min" -> s[1]
            [] name = "max" -> s[Len(s)]
            [] name = "q25" -> Percentile(s, 25)
            [] name = "q75" -> Percentile(s, 75)
            [] name = "var" ->
                 Div(SumOf([i \in 1..Len(xs) |->
                              Mul(Sub(xs[i], mean), Sub(xs[i], mean))]),
                     IntV(Len(xs)))

\* sklearn's _handle_zeros_in_scale: a zero scale is replaced by 1
NonZeroScale(scale) == IF scale = Zero THEN One ELSE scale

(***************************************************************************)
(* Elementary transforms on one column: fit gives the fitted object,       *)
(* transform the new column, either may raise                              *)
(***************************************************************************)
\* FeatureTransformer.transform, lines 178-201
FeatureTransformerTransform(t, col) ==
  Ok([i \in 1..Len(col) |-> ApplyFunction(t.transformer, col[i])])

IsBound(v) == v.k \in {"num", "none", "nan"}

\* a clip that forgets the lower bound
ClipCell_NoLower(x, lower, upper) ==
  IF IsNum(x) /\ IsNum(upper) /\ Less(upper, x) THEN upper ELSE x

\* DataFrame.clip(lower, upper) with scalar bounds: a NaN bound is no bound,
\* reversed bounds are swapped, a missing entry stays missing
ClipCell(x, lower, upper) ==
  LET lo0 == IF IsNum(lower) THEN lower ELSE None
      hi0 == IF IsNum(upper) THEN upper ELSE None
      swap == IsNum(lo0) /\ IsNum(hi0) /\ Less(hi0, lo0)
      lo == IF swap THEN hi0 ELSE lo0
      hi == IF swap THEN lo0 ELSE hi0
  IN IF IsNaN(x) THEN NaN
     ELSE IF ~IsNum(x) THEN Irr("clip", <<x, lo, hi>>)
     ELSE IF IsNum(hi) /\ Less(hi, x) THEN hi
     ELSE IF IsNum(lo) /\ Less(x, lo) THEN lo
     ELSE x

\* the bounds X.clip(*limits) receives: the missing ones are None
LowerBound(limits) == IF Len(limits.items) >= 1 THEN limits.items[1] ELSE None
UpperBound(limits) == IF Len(limits.items) >= 2 THEN limits.items[2] ELSE None

\* FeatureClipper.transform, lines 303-326: X.clip(*self.limits); an
\* exception of the clip is logged and X returned as it is
FeatureClipperTransform(t, col) ==
  IF t.limits.k = "list" /\ Len(t.limits.items) <= 2
     /\ \A i \in 1..Len(t.limits.items) : IsBound(t.limits.items[i])
  THEN Ok([i \in 1..Len(col) |-> ClipCell(col[i], LowerBound(t.limits), UpperBound(t.limits))])
  ELSE Ok(col)

\* SimpleImputer.fit on a numeric column
SimpleImputerFit(imputer, col) ==
  IF imputer.strategy = "constant"
  THEN IF imputer.fill_value = None
       THEN Ok([imputer EXCEPT !.statistics = Zero])
       ELSE IF IsNum(imputer.fill_value)
            THEN Ok([imputer EXCEPT !.statistics = imputer.fill_value])
            ELSE Raise("ValueError", "SimpleImputer.fit")
  ELSE Ok([imputer EXCEPT !.statistics = Statistic(imputer.strategy, col)])

\* SimpleImputer.transform: a column whose statistic is NaN is dropped, and
\* the table can then not be rebuilt under the input's column names
SimpleImputerTransform(imputer, col) ==
  IF IsNaN(imputer.statistics)
  THEN Raise("ValueError", "dataframe_transformer")
  ELSE Ok([i \in 1..Len(col) |-> IF IsNaN(col[i]) THEN imputer.statistics ELSE col[i]])

\* FeatureImputer.fit, lines 373-391
ImputerFit(imputer, col) ==
  IF imputer.cls = "Identity" THEN Ok(imputer) ELSE SimpleImputerFit(imputer, col)

FeatureImputerFit(t, col) ==
  Then(ImputerFit(interpret_imputation(t.strategy, t.parameter), col), LAMBDA fitted :
    Ok([t EXCEPT !.imputer = fitted]))

\* FeatureImputer.transform, lines 393-408
FeatureImputerTransform(t, col) ==
  IF t.imputer.cls = "Identity" THEN Ok(col)
  ELSE SimpleImputerTransform(t.imputer, col)

\* MinMaxScaler / StandardScaler / RobustScaler .fit
ScalerFit(scaler, col) ==
  CASE scaler.cls = "MinMaxScaler" ->
         [scaler EXCEPT !.fitted =
            [center |-> Statistic("min", col),
             scale |-> Arith("sub", Statistic("max", col), Statistic("min", col))]]
    [] scaler.cls = "StandardScaler" ->
         [scaler EXCEPT !.fitted =
            [center |-> Statistic("mean", col),
             scale |-> ApplyFunction("sqrt", Statistic("var", col))]]
    [] scaler.cls = "RobustScaler" ->
         [scaler EXCEPT !.fitted =
            [center |-> Statistic("median", col),
             scale |-> Arith("sub", Statistic("q75", col), Statistic("q25", col))]]
    [] OTHER -> scaler

\* the scalers' transform: (x - center) / scale
ScalerTransform(scaler, col) ==
  IF scaler.cls = "Identity" THEN col
  ELSE [i \in 1..Len(col) |->
          Arith("div", Arith("sub", col[i], scaler.fitted.center),
                NonZeroScale(scaler.fitted.scale))]

\* FeatureScaler.fit, lines 483-501
FeatureScalerFit(t, col) == Ok([t EXCEPT !.scaler = ScalerFit(t.scaler, col)])

\* FeatureScaler.transform, lines 503-518
FeatureScalerTransform(t, col) == Ok(ScalerTransform(t.scaler, col))

\* FeatureWeigher.transform, lines 603-621
FeatureWeigherTransform(t, col) ==
  IF IsNum(t.weight)
  THEN Ok([i \in 1..Len(col) |-> Arith("mul", col[i], t.weight)])
  ELSE Raise("TypeError", "FeatureWeigher.transform")


KBinsStrategies == {"uniform", "quantile", "kmeans"}

\* KBinsDiscretizer.fit: the inner bin edges of the column.  Only the uniform
\* strategy's edges are computed; the other two are kept as terms.
KBinsFit(d, col) ==
  IF Word(d.strategy) \notin KBinsStrategies \/ d.n_bins < 2
     \/ \E i \in 1..Len(col) : IsNaN(col[i])
  THEN Raise("ValueError", "KBinsDiscretizer.fit")
  ELSE IF Word(d.strategy) # "uniform" \/ ~AllNum(col)
       THEN Ok([d EXCEPT !.bin_edges = Irr(Word(d.strategy), col)])
       ELSE LET lo == Statistic("min", col)
                hi == Statistic("max", col)
            IN Ok([d EXCEPT !.bin_edges =
                     IF lo = hi THEN List(<<>>)
                     ELSE List([j \in 1..(d.n_bins - 1) |->
                                  Add(lo, Mul(Sub(hi, lo), Num(j, d.n_bins)))])])

\* KBinsDiscretizer.transform with encode="ordinal": the bin index of a value
KBinsCell(d, x) ==
  IF d.bin_edges.k = "list" /\ IsNum(x)
  THEN IntV(Cardinality({j \in 1..Len(d.bin_edges.items) : Leq(d.bin_edges.items[j], x)}))
  ELSE Irr("bin", <<x, d.bin_edges, IntV(d.n_bins)>>)

KBinsTransform(d, col) ==
  IF \E i \in 1..Len(col) : IsNaN(col[i])
  THEN Raise("ValueError", "KBinsDiscretizer.transform")
  ELSE Ok([i \in 1..Len(col) |-> KBinsCell(d, col[i])])

\* FeatureDiscretizer.__train_value_maps, lines 726-752: bin -> mean of the
\* training values that fell in it
TrainValueMap(bins, col) ==
  LET orders == Unique(bins)
  IN [b \in 1..Len(orders) |->
        Entry(orders[b],
              Statistic("mean", [i \in 1..Len(col) |->
                                   IF bins[i] = orders[b] THEN col[i] ELSE NaN]))]

\* FeatureDiscretizer.fit, lines 665-685
FeatureDiscretizerFit(t, col) ==
  Then(KBinsFit(t.discretizer, col), LAMBDA d :
    Then(KBinsTransform(d, col), LAMBDA bins :
      Ok([t EXCEPT !.discretizer = d,
                   !.value_maps = List(TrainValueMap(bins, col))])))

\* FeatureDiscretizer.__apply_value_maps, lines 754-776: a bin with no entry
\* keeps its index
ApplyValueMap(subs, bin) == IF HasKey(subs, bin) THEN Get(subs, bin) ELSE bin

\* FeatureDiscretizer.transform, lines 687-706
FeatureDiscretizerTransform(t, col) ==
  Then(KBinsTransform(t.discretizer, col), LAMBDA bins :
    Ok([i \in 1..Len(col) |-> ApplyValueMap(t.value_maps.items, bins[i])]))

\* fit of any transformer object on one column
FitTransformer(t, col) ==
  CASE t.cls = "FeatureImputer" -> FeatureImputerFit(t, col)
    [] t.cls = "FeatureScaler" -> FeatureScalerFit(t, col)
    [] t.cls = "FeatureDiscretizer" -> FeatureDiscretizerFit(t, col)
    [] OTHER -> Ok(t)

\* transform of any transformer object on one column
TransformTransformer(t, col) ==
  CASE t.cls = "Identity" -> Ok(col)
    [] t.cls = "FeatureTransformer" -> FeatureTransformerTransform(t, col)
    [] t.cls = "FeatureClipper" -> FeatureClipperTransform(t, col)
    [] t.cls = "FeatureImputer" -> FeatureImputerTransform(t, col)
    [] t.cls = "FeatureScaler" -> FeatureScalerTransform(t, col)
    [] t.cls = "FeatureWeigher" -> FeatureWeigherTransform(t, col)
    [] t.cls = "FeatureDiscretizer" -> FeatureDiscretizerTransform(t, col)


(***************************************************************************)
(* Tables                                                                  *)
(***************************************************************************)
Column(name, values) == [name |-> name, values |-> values]

ColumnNames(X) == [i \in 1..Len(X) |-> X[i].name]

HasColumn(X, name) == \E i \in 1..Len(X) : X[i].name = name

ColumnOf(X, name) == X[CHOOSE i \in 1..Len(X) : X[i].name = name]

\* X[features]: the named columns, in the order of the list; KeyError when
\* one is no column of X
SelectColumns(X, features) ==
  IF \A i \in 1..Len(features) : HasColumn(X, features[i])
  THEN Ok([i \in 1..Len(features) |-> ColumnOf(X, features[i])])
  ELSE Raise("KeyError", "DataFrame.__getitem__")

\* dataframe_transformer(X, transformer): the transformer's raw output,
\* rebuilt as a table under X's column names and index
dataframe_transformer(X, raw) ==
  IF Len(raw) = Len(X)
  THEN Ok([i \in 1..Len(X) |-> Column(X[i].name, raw[i])])
  ELSE Raise("ValueError", "dataframe_transformer")

(***************************************************************************)
(* ColumnTransformer, lines 41-140, over sklearn.compose.ColumnTransformer *)
(***************************************************************************)
Triple(name, t, columns) == [name |-> name, t |-> t, columns |-> columns]

\* ColumnTransformer.__init__, lines 115-116
NewColumnTransformer(transformers) ==
  [cls |-> "ColumnTransformer", transformers |-> transformers,
   fitted |-> FALSE, transformers_ |-> <<>>]

\* the positional selector [o] of a triple designates a column of X
ValidColumns(X, triple) ==
  \A i \in 1..Len(triple.columns) : triple.columns[i] \in 0..(Len(X) - 1)

\* the column slice a triple selects
Slice(X, triple) == X[triple.columns[1] + 1].values

\* fit_transform of one triple's transformer on its column slice
FitTriple(X, triple) ==
  Then(FitTransformer(triple.t, Slice(X, triple)), LAMBDA fitted :
    Then(TransformTransformer(fitted, Slice(X, triple)), LAMBDA out :
      Ok(Triple(triple.name, fitted, triple.columns))))

RECURSIVE FitTriples(_, _, _)
FitTriples(X, triples, done) ==
  IF triples = <<>> THEN Ok(done)
  ELSE Then(FitTriple(X, Head(triples)), LAMBDA fitted :
         FitTriples(X, Tail(triples), Append(done, fitted)))

\* ColumnTransformer.fit, lines 118-133: the selectors are validated, then
\* every transformer is fitted on its slice, in the order of the triples
ColumnTransformerFit(ct, X) ==
  IF \E i \in 1..Len(ct.transformers) : ~ValidColumns(X, ct.transformers[i])
  THEN Raise("ValueError", "ColumnTransformer.fit")
  ELSE Then(FitTriples(X, ct.transformers, <<>>), LAMBDA fitted :
         Ok([ct EXCEPT !.fitted = TRUE, !.transformers_ = fitted]))

RECURSIVE TransformTriples(_, _, _)
TransformTriples(X, triples, done) ==
  IF triples = <<>> THEN Ok(done)
  ELSE Then(TransformTransformer(Head(triples).t, Slice(X, Head(triples))), LAMBDA out :
         TransformTriples(X, Tail(triples), Append(done, out)))

\* ColumnTransformer.transform, lines 135-136: every fitted transformer on
\* its slice, the outputs stacked in the order of the triples
ColumnTransformerTransform(ct, X) ==
  IF ~ct.fitted THEN Raise("NotFittedError", "ColumnTransformer.transform")
  ELSE IF \E i \in 1..Len(ct.transformers_) : ~ValidColumns(X, ct.transformers_[i])
       THEN Raise("ValueError", "ColumnTransformer.transform")
       ELSE Then(TransformTriples(X, ct.transformers_, <<>>), LAMBDA raw :
              dataframe_transformer(X, raw))

\* fit of a pipeline step: a ColumnTransformer or the Identity
StepFit(step, X) ==
  IF step.cls = "Identity" THEN Ok(step) ELSE ColumnTransformerFit(step, X)

\* transform of a pipeline step
StepTransform(step, X) ==
  IF step.cls = "Identity" THEN Ok(X) ELSE ColumnTransformerTransform(step, X)

(***************************************************************************)
(* sklearn.pipeline.Pipeline over the steps of __set_preprocessor          *)
(***************************************************************************)
NewPipeline(steps) == [cls |-> "Pipeline", steps |-> steps]

\* the outcome of running a pipeline: the pipeline as the run left it, the
\* tables the steps were given (inputs) and returned (outputs), in order
Run(ok, pipeline, err, at, inputs, outputs) ==
  [ok |-> ok, pipeline |-> pipeline, err |-> err, at |-> at,
   inputs |-> inputs, outputs |-> outputs]

\* Pipeline.fit: every step but the last is fitted on the current table and
\* then applied to it; the last step is fitted only
RECURSIVE PipelineFitFrom(_, _, _, _, _)
\* a fit that hands every stage the table the pipeline was given
PipelineChain_Raw(q, i, Xt, inputs, outputs, out) ==
  IF ~out.ok THEN Run(FALSE, q, out.err, out.at, inputs, outputs)
  ELSE PipelineFitFrom(q, i + 1, Xt, inputs, Append(outputs, out.val))

PipelineChain(q, i, Xt, inputs, outputs, out) ==
  IF ~out.ok THEN Run(FALSE, q, out.err, out.at, inputs, outputs)
  ELSE PipelineFitFrom(q, i + 1, out.val, inputs, Append(outputs, out.val))

PipelineFitted(p, i, Xt, inputs, outputs, f) ==
  IF ~f.ok THEN Run(FALSE, p, f.err, f.at, inputs, outputs)
  ELSE IF i = Len(p.steps)
       THEN Run(TRUE, [p EXCEPT !.steps[i] = f.val], "", "", inputs, outputs)
       ELSE PipelineChain([p EXCEPT !.steps[i] = f.val], i, Xt, inputs, outputs,
                          StepTransform(f.val, Xt))

PipelineFitFrom(p, i, Xt, inputs, outputs) ==
  PipelineFitted(p, i, Xt, Append(inputs, Xt), outputs, StepFit(p.steps[i], Xt))

PipelineFit(p, X) == PipelineFitFrom(p, 1, X, <<>>, <<>>)

\* Pipeline.transform: the steps in order, each on the previous one's output
RECURSIVE PipelineTransformFrom(_, _, _, _, _)
PipelineTransformed(p, i, Xt, inputs, outputs, out) ==
  IF ~out.ok THEN Run(FALSE, p, out.err, out.at, inputs, outputs)
  ELSE PipelineTransformFrom(p, i + 1, out.val, inputs, Append(outputs, out.val))

PipelineTransformFrom(p, i, Xt, inputs, outputs) ==
  IF i > Len(p.steps) THEN Run(TRUE, p, "", "", inputs, outputs)
  ELSE PipelineTransformed(p, i, Xt, Append(inputs, Xt), outputs,
                           StepTransform(p.steps[i], Xt))

PipelineTransform(p, X) == PipelineTransformFrom(p, 1, X, <<>>, <<>>)

(***************************************************************************)
(* PreProcessor, lines 779-1050.  An instance is the record of its         *)
(* attributes; preprocessor is None until __set_preprocessor first returns.*)
(* An attribute that is None or a list (dict, table) holds the list as     *)
(* List(_) (Dict(_), Table(_)).                                            *)
(***************************************************************************)
Instance(cfgs, names, active, types, pipeline) ==
  [features_config |-> cfgs, feature_names |-> names, feature_active |-> active,
   feature_types |-> types, preprocessor |-> pipeline]

\* PreProcessor.__init__, lines 783-792
NewPreProcessor(cfgs) == Instance(cfgs, None, None, None, None)

\* PreProcessor.__interpret_config, lines 864-878
interpret_config(self) ==
  LET cfgs == NormalizedConfigs(self.features_config)
  IN Instance(cfgs, List(FeatureNamesOf(cfgs)), Dict(FeatureActiveOf(cfgs)),
              Dict(FeatureTypesOf(cfgs)), self.preprocessor)

\* rows of one transform_order, sorted by feature_order, lines 965-967
StepRows(action_plan, transform_order) ==
  SortRows(SelectSeq(action_plan, LAMBDA r : r.transform_order = transform_order))

\* lines 969-974: the triples of one stage; the first step that cannot be
\* interpreted raises
RECURSIVE InterpretRows(_, _)
InterpretRows(rows, done) ==
  IF rows = <<>> THEN Ok(done)
  ELSE Then(interpret_process_step(Head(rows).key, Head(rows).value, Head(rows).type),
            LAMBDA t :
              InterpretRows(Tail(rows),
                            Append(done, Triple(Head(rows).feature_name, t,
                                                <<Head(rows).feature_order>>))))

\* lines 963-981: one ColumnTransformer per transform_order
RECURSIVE AssembleSteps(_, _, _)
AssembleSteps(action_plan, orders, steps) ==
  IF orders = <<>> THEN Ok(steps)
  ELSE Then(InterpretRows(StepRows(action_plan, Head(orders)), <<>>), LAMBDA transformers :
         AssembleSteps(action_plan, Tail(orders),
                       Append(steps, NewColumnTransformer(transformers))))

\* PreProcessor.__set_preprocessor, lines 951-988
set_preprocessor(action_plan) ==
  Then(AssembleSteps(action_plan, TransformOrders(action_plan), <<>>), LAMBDA steps :
    IF Len(steps) > 0 THEN Ok(NewPipeline(steps))
    ELSE Ok(NewPipeline(<<NewIdentity>>)))

\* PreProcessor.__get_active_features, lines 990-997
get_active_features(self) ==
  LET act == SelectSeq(self.feature_active.items, LAMBDA e : e.value.b)
  IN [i \in 1..Len(act) |-> act[i].key]

\* Series.round(0): to the nearest integer, a tie to the even one
Round(v) ==
  IF IsNaN(v) THEN NaN
  ELSE IF ~IsNum(v) THEN Irr("round", <<v>>)
  ELSE LET fl == v.n \div v.d
           twice == 2 * (v.n - fl * v.d)
       IN IF twice < v.d THEN IntV(fl)
          ELSE IF twice > v.d THEN IntV(fl + 1)
          ELSE IF fl % 2 = 0 THEN IntV(fl) ELSE IntV(fl + 1)

IntLabels == {<<"i", "n", "t">>, <<"i", "n", "t", "6", "4">>}
FloatLabels == {<<"f", "l", "o", "a", "t">>, <<"f", "l", "o", "a", "t", "6", "4">>}
StrLabels == {<<"s", "t", "r">>}

\* a float converted to an integer drops its fraction (towards zero)
Truncate(v) == IF v.n >= 0 THEN IntV(v.n \div v.d) ELSE IntV(-((-v.n) \div v.d))

\* Series.astype(type_) of one cell
AsType(type_, v) ==
  IF type_.s \in IntLabels
  THEN IF IsNaN(v) THEN Raise("ValueError", "Series.astype")
       ELSE IF IsNum(v) THEN Ok(Truncate(v))
       ELSE Ok(Irr("astype", <<v, type_>>))
  ELSE IF type_.s \in FloatLabels THEN Ok(v)
  ELSE IF type_.s \in StrLabels THEN Ok([k |-> "repr", of |-> v])
  ELSE Raise("TypeError", "Series.astype")

\* a cast that does not round first
CastCell_NoRound(type_, v) == AsType(type_, v)

\* lines 1044-1048
CastCell(type_, v) ==
  IF Contains(Lower(type_.s), <<"i", "n", "t">>)
  THEN AsType(type_, Round(v))
  ELSE AsType(type_, v)

CastColumn(type_, col) ==
  LET cells == [i \in 1..Len(col) |-> CastCell(type_, col[i])]
  IN IF \E i \in 1..Len(col) : ~cells[i].ok
     THEN cells[CHOOSE i \in 1..Len(col) : ~cells[i].ok]
     ELSE Ok([i \in 1..Len(col) |-> cells[i].val])

\* PreProcessor.__cast_columns, lines 1038-1050: every entry of
\* feature_types, in the dict's order
RECURSIVE cast_columns(_, _)
cast_columns(X, types) ==
  IF types = <<>> THEN Ok(X)
  ELSE IF ~HasColumn(X, Head(types).key)
       THEN Raise("KeyError", "PreProcessor.__cast_columns")
       ELSE Then(CastColumn(Head(types).value, ColumnOf(X, Head(types).key).values),
                 LAMBDA c :
                   cast_columns([i \in 1..Len(X) |->
                                   IF X[i].name = Head(types).key
                                   THEN Column(X[i].name, c) ELSE X[i]],
                                Tail(types)))

\* what a call leaves behind: the instance, and what the caller and the
\* stages saw
Outcome(op, X, self, ok, err, at, plan, installed, fitrun, run, precast, result) ==
  [op |-> op, X |-> X, self |-> self, ok |-> ok, err |-> err, at |-> at,
   plan |-> plan, installed |-> installed, fitrun |-> fitrun, run |-> run,
   precast |-> precast, result |-> result]

NoRun == Run(TRUE, None, "", "", <<>>, <<>>)

\* line 818 returned or raised
FitResult(self2, action_plan, X, r) ==
  Outcome("fit", X, [self2 EXCEPT !.preprocessor = r.pipeline], r.ok, r.err, r.at,
          List(action_plan), TRUE, r, NoRun, None, None)

\* lines 816-818: the pipeline is fitted on the active features' columns
FitOnData(self2, action_plan, X, Xf) ==
  IF ~Xf.ok
  THEN Outcome("fit", X, self2, FALSE, Xf.err, Xf.at, List(action_plan), TRUE,
               NoRun, NoRun, None, None)
  ELSE FitResult(self2, action_plan, X, PipelineFit(self2.preprocessor, Xf.val))

\* line 816
FitSelected(self2, action_plan, X) ==
  FitOnData(self2, action_plan, X, SelectColumns(X, get_active_features(self2)))

\* line 814: the assembled pipeline is installed, unless the assembly raised
FitInstalled(self1, action_plan, X, pre) ==
  IF ~pre.ok
  THEN Outcome("fit", X, self1, FALSE, pre.err, pre.at, List(action_plan), FALSE,
               NoRun, NoRun, None, None)
  ELSE FitSelected([self1 EXCEPT !.preprocessor = pre.val], action_plan, X)

\* lines 812-814
FitPlanned(self1, action_plan, X) ==
  FitInstalled(self1, action_plan, X, set_preprocessor(action_plan))

\* lines 810-812
FitConfigured(self1, X) ==
  FitPlanned(self1,
             create_action_plan(self1.features_config, self1.feature_names.items,
                                self1.feature_active.items, self1.feature_types.items),
             X)

\* PreProcessor.fit, lines 794-820
fit(self0, X) == FitConfigured(interpret_config(self0), X)

TransformFails(self, X, err, at, run, precast) ==
  Outcome("transform", X, self, FALSE, err, at, None, FALSE, NoRun, run, precast, None)

\* line 842
TransformCast(self, X, r, X_transf, cast) ==
  IF ~cast.ok THEN TransformFails(self, X, cast.err, cast.at, r, Table(X_transf))
  ELSE Outcome("transform", X, self, TRUE, "", "", None, FALSE, NoRun, r,
               Table(X_transf), Table(cast.val))

\* line 840
TransformWrapped(self, X, r, X_transf) ==
  IF ~X_transf.ok THEN TransformFails(self, X, X_transf.err, X_transf.at, r, None)
  ELSE TransformCast(self, X, r, X_transf.val,
                     cast_columns(X_transf.val, self.feature_types.items))

RawColumns(X) == [i \in 1..Len(X) |-> X[i].values]

\* line 840
TransformRun(self, X, Xf, r) ==
  IF ~r.ok THEN TransformFails(self, X, r.err, r.at, r, None)
  ELSE TransformWrapped(self, X, r,
                        dataframe_transformer(Xf, RawColumns(r.outputs[Len(r.outputs)])))

\* lines 838-840
TransformSelected(self, X, Xf) ==
  IF ~Xf.ok THEN TransformFails(self, X, Xf.err, Xf.at, NoRun, None)
  ELSE IF self.preprocessor = None
       THEN TransformFails(self, X, "AttributeError", "PreProcessor.transform", NoRun, None)
       ELSE TransformRun(self, X, Xf.val, PipelineTransform(self.preprocessor, Xf.val))

\* PreProcessor.transform, lines 822-844
transform(self, X) ==
  IF self.feature_active = None
  THEN TransformFails(self, X, "TypeError", "PreProcessor.__get_active_features",
                      NoRun, None)
  ELSE TransformSelected(self, X, SelectColumns(X, get_active_features(self)))

\* line 862, after the fit of line 861 returned
FitThenTransformed(f, t) ==
  [t EXCEPT !.op = "fit_transform", !.plan = f.plan, !.installed = f.installed,
            !.fitrun = f.fitrun]

\* lines 861-862
FitThenTransform(f, X) ==
  IF ~f.ok THEN [f EXCEPT !.op = "fit_transform"]
  ELSE FitThenTransformed(f, transform(f.self, X))

\* a fit_transform that keeps the pipeline of an earlier fit
fit_transform_KeepFitted(self0, X) ==
  IF self0.preprocessor = None THEN FitThenTransform(fit(self0, X), X)
  ELSE [transform(self0, X) EXCEPT !.op = "fit_transform"]

\* PreProcessor.fit_transform, lines 846-862
fit_transform(self0, X) == FitThenTransform(fit(self0, X), X)

(***************************************************************************)
(* The state machine: one PreProcessor instance and the calls made on it.  *)
(* last is what the latest call returned or raised; fitted_on is the table *)
(* of the latest fit that returned (History: None when none has).          *)
(***************************************************************************)
Self == Instance(features_config, feature_names, feature_active, feature_types,
                 preprocessor)

NoCall == Outcome("init", <<>>, None, TRUE, "", "", None, FALSE, NoRun, NoRun, None, None)

\* the call ran self.fit(X) and it returned (line 820)
FitCompleted(out) ==
  /\ out.op \in {"fit", "fit_transform"}
  /\ out.installed
  /\ out.fitrun.ok
  /\ out.fitrun.inputs # <<>>

\* the attributes after a call are those the call left, also when it raised
Leaves(out) ==
  /\ fitted_on' = IF FitCompleted(out) THEN Table(out.X) ELSE fitted_on
  /\ features_config' = out.self.features_config
  /\ feature_names' = out.self.feature_names
  /\ feature_active' = out.self.feature_active
  /\ feature_types' = out.self.feature_types
  /\ preprocessor' = out.self.preprocessor
  /\ last' = [out EXCEPT !.self = None]

Fit(X) == Leaves(fit(Self, X))

Transform(X) == Leaves(transform(Self, X))

FitTransform(X) == Leaves(fit_transform(Self, X))

\* PreProcessor(features_config), lines 783-792
Constructed(configs) ==
  /\ features_config \in configs
  /\ feature_names = None
  /\ feature_active = None
  /\ feature_types = None
  /\ preprocessor = None
  /\ last = NoCall
  /\ fitted_on = None

(***************************************************************************)
(* Inputs                                                                  *)
(***************************************************************************)
MaxFeatures == 2
MaxSteps == 2

FeaturePool == <<"a", "b", "c", "d">>

Name(i) == Str(<<FeaturePool[i]>>)

TypeInt == Str(<<"i", "n", "t">>)
TypeFloat == Str(<<"f", "l", "o", "a", "t">>)
TypeStr == Str(<<"s", "t", "r">>)

\* the sequences of at most n entries of S with pairwise different keys
RECURSIVE StepLists(_, _)
StepLists(S, n) ==
  IF n = 0 THEN {<<>>}
  ELSE LET shorter == StepLists(S, n - 1)
       IN shorter \cup
          {Append(l, e) : <<l, e>> \in
             {p \in shorter \X S : \A i \in 1..Len(p[1]) : p[1][i].key # p[2].key}}

\* one feature's configuration dict: name, type, an optional active, steps
FeatureConfigs(i, types, actives, steplists) ==
  {<<Entry("name", Name(i)), Entry("type", ty)>> \o act \o steps :
     ty \in types, act \in actives, steps \in steplists}

ActiveOmitted == <<>>
ActiveTrue == <<Entry("active", Bool(TRUE))>>
ActiveFalse == <<Entry("active", Bool(FALSE))>>

\* the configuration lists of 1..n features, the i-th drawn from F[i]
RECURSIVE ConfigLists(_, _)
ConfigLists(F, n) ==
  IF n = 1 THEN {<<c>> : c \in F[1]}
  ELSE LET shorter == {l \in ConfigLists(F, n - 1) : Len(l) = n - 1}
       IN ConfigLists(F, n - 1) \cup {Append(l, c) : l \in shorter, c \in F[n]}

\* tables holding one column per feature of the pool, each drawn from cols
RECURSIVE TablesOver(_, _)
TablesOver(n, cols) ==
  IF n = 0 THEN {<<>>}
  ELSE {Append(X, Column(Name(n), c)) : X \in TablesOver(n - 1, cols), c \in cols}


\* any call with any table of the set
Calls(tables) == \E X \in tables : Fit(X) \/ Transform(X) \/ FitTransform(X)

Half == Num(1, 2)

\* columns with ties (1/2, 3/2, 5/2), other fractions, a negative value and a
\* missing entry
Columns ==
  {<<Half, Num(3, 2), Num(7, 4)>>, <<NaN, Num(5, 2), Num(-3, 4)>>}

Tables == TablesOver(MaxFeatures, Columns)

(***************************************************************************)
(* The life of an instance: configurations of up to MaxFeatures features   *)
(* of every type, active or not, each with up to MaxSteps steps            *)
(***************************************************************************)
StepEntries ==
  {Entry("limits", List(<<IntV(0), IntV(2)>>)),
   Entry("scaler", Str(<<"min_max">>))}

Configs ==
  ConfigLists([i \in 1..MaxFeatures |->
                 FeatureConfigs(i, {TypeInt, TypeFloat, TypeStr},
                                {ActiveOmitted, ActiveFalse},
                                StepLists(StepEntries, MaxSteps))],
              MaxFeatures)

Init == Constructed(Configs)

Next == Calls(Tables)

Spec == Init /\ [][Next]_vars

(***************************************************************************)
(* Plan compilation: fit on configurations of up to MaxPlanFeatures        *)
(* features, each with up to MaxPlanEntries entries besides name, type and *)
(* active, some of them inert                                              *)
(***************************************************************************)
MaxPlanFeatures == 3
MaxPlanEntries == 2

PlanEntries ==
  {Entry("transformation", Str(<<"square">>)),
   Entry("weight", IntV(2)),
   Entry("polynomial_degree", IntV(2)),
   Entry("encode", Str(<<"onehot">>))}

PlanConfigs ==
  ConfigLists([i \in 1..MaxPlanFeatures |->
                 FeatureConfigs(i, {TypeFloat}, {ActiveOmitted, ActiveFalse},
                                StepLists(PlanEntries, MaxPlanEntries))],
              MaxPlanFeatures)

PlanTables ==
  {[i \in 1..Len(FeaturePool) |-> Column(Name(i), <<IntV(1), NaN, IntV(3)>>)]}

InitPlan == Constructed(PlanConfigs)

NextPlan == \E X \in PlanTables : Fit(X)

SpecPlan == InitPlan /\ [][NextPlan]_vars

(***************************************************************************)
(* Steps that are interpreted leniently: an unknown key, unknown and null  *)
(* scalers, imputation strategies.  The first feature declares up to       *)
(* MaxSteps of them, any further feature at most one, every feature active *)
(***************************************************************************)
LenientEntries ==
  {Entry("foo", IntV(1)),
   Entry("scaler", Str(<<"foo">>)),
   Entry("scaler", None),
   Entry("scaler", Str(<<"min_max">>)),
   Entry("imputation_strategy", Str(<<"mean">>)),
   Entry("imputation_strategy", Str(<<"median">>)),
   Entry("imputation_strategy", Str(<<"constant", ":", "1">>)),
   Entry("imputation_strategy", Str(<<"foo">>))}

LenientConfigs ==
  ConfigLists([i \in 1..MaxFeatures |->
                 IF i = 1
                 THEN FeatureConfigs(i, {TypeFloat, TypeStr}, {ActiveOmitted},
                                     StepLists(LenientEntries, MaxSteps))
                 ELSE FeatureConfigs(i, {TypeFloat}, {ActiveOmitted},
                                     StepLists(LenientEntries, 1))],
              MaxFeatures)

\* columns with missing entries, of mean 4 and median 3, and of mean and
\* median 3
LenientColumns ==
  {<<IntV(1), NaN, IntV(3), IntV(8)>>, <<IntV(2), IntV(4), NaN, NaN>>}

LenientTables == TablesOver(MaxFeatures, LenientColumns)

InitLenient == Constructed(LenientConfigs)

NextLenient == Calls(LenientTables)

SpecLenient == InitLenient /\ [][NextLenient]_vars

(***************************************************************************)
(* Clipping: limits steps with the bounds in either order, on columns with *)
(* values below, inside, on and above the bounds and a missing entry       *)
(***************************************************************************)
ClipBounds == {IntV(0), IntV(5), IntV(10)}

ClipEntries == {Entry("limits", List(<<low, high>>)) : low \in ClipBounds, high \in ClipBounds}

ClipConfigs ==
  ConfigLists([i \in 1..MaxFeatures |->
                 FeatureConfigs(i, {TypeFloat}, {ActiveOmitted, ActiveTrue},
                                StepLists(ClipEntries, 1))],
              MaxFeatures)

ClipColumns == {<<IntV(-5), IntV(15), IntV(5)>>, <<NaN, IntV(0), IntV(12)>>}

ClipTables == TablesOver(MaxFeatures, ClipColumns)

InitClip == Constructed(ClipConfigs)

NextClip == Calls(ClipTables)

SpecClip == InitClip /\ [][NextClip]_vars

(***************************************************************************)
(* Configuration errors: transformation names and discretizer values, good *)
(* and bad, on active and inactive features.  The first feature declares   *)
(* up to MaxSteps steps, any further feature at most one                   *)
(***************************************************************************)
ErrorEntries ==
  {Entry("transformation", Str(<<"square">>)),
   Entry("transformation", Str(<<"cube">>)),
   Entry("discretizer", Str(<<"uniform", ":", "2">>)),
   Entry("discretizer", Str(<<"uniform">>)),
   Entry("discretizer", Str(<<"uniform", ":", "x">>)),
   Entry("discretizer", Str(<<"uniform", ":", "2", ":", "3">>))}

ErrorConfigs ==
  ConfigLists([i \in 1..MaxFeatures |->
                 FeatureConfigs(i, {TypeFloat}, {ActiveOmitted, ActiveFalse},
                                StepLists(ErrorEntries, IF i = 1 THEN MaxSteps ELSE 1))],
              MaxFeatures)

InitErrors == Constructed(ErrorConfigs)

NextErrors == Calls(Tables)

SpecErrors == InitErrors /\ [][NextErrors]_vars

(***************************************************************************)
(* Calls with tables that may lack the first feature's column, on          *)
(* configurations with at most one step per feature                        *)
(***************************************************************************)
Without(X, name) == SelectSeq(X, LAMBDA c : c.name # name)

PartialTables == Tables \cup {Without(X, Name(1)) : X \in Tables}

PartialEntries == StepEntries \cup {Entry("weight", IntV(2))}

PartialConfigs ==
  ConfigLists([i \in 1..MaxFeatures |->
                 FeatureConfigs(i, {TypeFloat}, {ActiveOmitted, ActiveFalse},
                                StepLists(PartialEntries, 1))],
              MaxFeatures)

InitPartial == Constructed(PartialConfigs)

NextPartial == Calls(PartialTables)

SpecPartial == InitPartial /\ [][NextPartial]_vars

(***************************************************************************)
(* What the claims speak of                                                *)
(***************************************************************************)
InertKeys == {"name", "active", "type", "encode", "polynomial_degree"}

\* the declared steps of a configuration: its entries whose key is no inert
\* key, in the configuration's order
DeclaredSteps(config) == SelectSeq(config, LAMBDA e : e.key \notin InertKeys)

MaxOf(S) == IF S = {} THEN 0 ELSE CHOOSE m \in S : \A x \in S : x <= m

\* the largest number of declared steps of a feature
StageCount(cfgs) == MaxOf({Len(DeclaredSteps(cfgs[j])) : j \in 1..Len(cfgs)})

Planned == last.op = "fit" /\ last.plan # None

PlanRows == last.plan.items

RowsAt(s, name) ==
  {r \in 1..Len(PlanRows) :
     PlanRows[r].transform_order = s /\ PlanRows[r].feature_name = name}

\* C1: the plan compiled by fit has exactly max(c_1..c_N) distinct
\* transform_order values, they are 0..max-1, and each of them holds exactly
\* N rows, exactly one per feature name
C1_PlanGrid ==
  Planned =>
    LET N == Len(features_config)
        orders == {PlanRows[r].transform_order : r \in 1..Len(PlanRows)}
    IN /\ Cardinality(orders) = StageCount(features_config)
       /\ orders = 0..(StageCount(features_config) - 1)
       /\ \A s \in orders :
            /\ Cardinality({r \in 1..Len(PlanRows) : PlanRows[r].transform_order = s}) = N
            /\ \A j \in 1..N :
                 Cardinality(RowsAt(s, Get(features_config[j], "name"))) = 1

\* a plan of three features declaring 0, 1 and 2 steps was compiled
C1_Witness ==
  /\ Planned
  /\ Len(features_config) = 3
  /\ Len(DeclaredSteps(features_config[1])) = 0
  /\ Len(DeclaredSteps(features_config[2])) = 1
  /\ Len(DeclaredSteps(features_config[3])) = 2
  /\ Len(PlanRows) = 6

\* C2: the plan is the right-padded reference plan: row (s, f) carries f's
\* s-th declared step when f declares more than s steps and the identity
\* transformation otherwise, and the plan holds no other row
C2_PaddedReference ==
  Planned =>
    LET N == Len(features_config)
        S == StageCount(features_config)
    IN /\ Len(PlanRows) = N * S
       /\ \A j \in 1..N : \A s \in 0..(S - 1) :
            LET steps == DeclaredSteps(features_config[j])
                rows == RowsAt(s, Get(features_config[j], "name"))
            IN \A r \in rows :
                 /\ PlanRows[r].feature_order = j - 1
                 /\ IF s < Len(steps)
                    THEN /\ PlanRows[r].key = steps[s + 1].key
                         /\ PlanRows[r].value = steps[s + 1].value
                    ELSE /\ PlanRows[r].key = "transformation"
                         /\ PlanRows[r].value = Str(<<"identity">>)
       /\ \A j \in 1..N : \A s \in 0..(S - 1) :
            RowsAt(s, Get(features_config[j], "name")) # {}

\* a plan where a feature's inert key sits before its declared step, next to
\* a feature with two declared steps: one row padded, one step after the
\* inert key
C2_Witness ==
  /\ Planned
  /\ Len(features_config) = 2
  /\ Keys(features_config[1])[3] = "encode"
  /\ Len(DeclaredSteps(features_config[1])) = 1
  /\ Len(DeclaredSteps(features_config[2])) = 2
  /\ \E r \in 1..Len(PlanRows) :
       /\ PlanRows[r].transform_order = 1
       /\ PlanRows[r].feature_order = 0
       /\ PlanRows[r].value = Str(<<"identity">>)

(***************************************************************************)
(* Inactive features, fit_transform, the final cast                        *)
(***************************************************************************)
HasInactive ==
  \E j \in 1..Len(features_config) :
    /\ HasKey(features_config[j], "active")
    /\ Get(features_config[j], "active") = Bool(FALSE)

\* the names of the features that are not switched off, in configuration
\* order
ActiveNames ==
  LET on == SelectSeq(features_config,
                      LAMBDA c : ~(HasKey(c, "active") /\ Get(c, "active") = Bool(FALSE)))
  IN [i \in 1..Len(on) |-> Get(on[i], "name")]

Returned == last.op \in {"transform", "fit_transform"} /\ last.ok

\* C3: with at least one feature switched off, fit followed by transform
\* completes and returns a table whose columns are exactly the active
\* features, in configuration order
C3_InactiveExcluded ==
  (last.op = "fit_transform" /\ HasInactive) =>
    /\ last.ok
    /\ ColumnNames(last.result.columns) = ActiveNames

\* with every feature active, fit followed by transform fails only in the
\* final cast of a missing entry to an integer type
AllActiveCompletes ==
  (last.op = "fit_transform" /\ ~HasInactive /\ ~last.ok) =>
    /\ last.at = "Series.astype"
    /\ last.fitrun.ok
    /\ last.run.ok

\* C4: fit_transform(X) returns (or raises) what fit(X) followed by
\* transform(X) returns (or raises) on a new instance built from the same
\* configuration, whatever was called on the instance before
C4_FitTransformIsFitThenTransform ==
  last.op = "fit_transform" =>
    LET f == fit(NewPreProcessor(features_config), last.X)
    IN IF f.ok
       THEN LET t == transform(f.self, last.X)
            IN /\ last.ok = t.ok
               /\ last.result = t.result
               /\ last.err = t.err
       ELSE ~last.ok /\ last.err = f.err

\* fit_transform returned a table with a column scaled to the range of the
\* table it was called with
C4_Witness ==
  /\ last.op = "fit_transform"
  /\ last.ok
  /\ Len(last.fitrun.inputs) > 0
  /\ \E i \in 1..Len(last.result.columns) :
       /\ ColumnOf(last.X, last.result.columns[i].name).values =
            <<NaN, Num(5, 2), Num(-3, 4)>>
       /\ last.result.columns[i].values = <<NaN, IntV(1), IntV(0)>>

AbsV(v) == IF v.n < 0 THEN Num(-v.n, v.d) ELSE v

IsIntegerType(type_) == Contains(Lower(type_.s), <<"i", "n", "t">>)

\* C6: in the table transform returns, a column of an integer type holds
\* integers, each a nearest integer of the pre-cast value (at most 1/2 away
\* from it); a column of a float type holds the pre-cast values and a column
\* of a string type their string form, nothing rounded
C6_RoundThenCast ==
  Returned =>
    \A i \in 1..Len(last.result.columns) :
      LET out == last.result.columns[i].values
          pre == ColumnOf(last.precast.columns, last.result.columns[i].name).values
          type_ == Get(feature_types.items, last.result.columns[i].name)
      IN \A r \in 1..Len(out) :
           IF IsIntegerType(type_)
           THEN /\ IsNum(out[r]) /\ out[r].d = 1
                /\ IsNum(pre[r])
                /\ Leq(Mul(IntV(2), AbsV(Sub(out[r], pre[r]))), One)
           ELSE IF type_.s \in FloatLabels THEN out[r] = pre[r]
           ELSE out[r] = [k |-> "repr", of |-> pre[r]]

\* transform returned an integer column for the pre-cast values 1/2, 3/2 and
\* 7/4 (two ties), next to a value of another type that kept its fraction
C6_Witness ==
  /\ Returned
  /\ last.op = "transform"
  /\ \E i \in 1..Len(last.result.columns) :
       /\ IsIntegerType(Get(feature_types.items, last.result.columns[i].name))
       /\ last.precast.columns[i].values = <<Half, Num(3, 2), Num(7, 4)>>
       /\ last.result.columns[i].values = <<IntV(0), IntV(2), IntV(2)>>
  /\ \E i \in 1..Len(last.result.columns) :
       /\ ~IsIntegerType(Get(feature_types.items, last.result.columns[i].name))
       /\ last.precast.columns[i].values[3] = Num(7, 4)

(***************************************************************************)
(* Single stages of a fit_transform call                                   *)
(***************************************************************************)
Ran == last.op = "fit_transform" /\ last.plan # None

\* the column of a feature a stage was fitted on, was given by transform
\* and returned
StageTrain(s, name) == ColumnOf(last.fitrun.inputs[s + 1], name).values
StageIn(s, name) == ColumnOf(last.run.inputs[s + 1], name).values
StageOut(s, name) == ColumnOf(last.run.outputs[s + 1], name).values

\* the stage of a plan row returned a table in the transform
Applied(r) == PlanRows[r].transform_order + 1 <= Len(last.run.outputs)

\* a column with its missing entries replaced
Filled(col, fill) == [i \in 1..Len(col) |-> IF IsNaN(col[i]) THEN fill ELSE col[i]]

MeanOf(col) == Div(SumOf(NonMissing(col)), IntV(Len(NonMissing(col))))

MedianOf(col) ==
  LET sorted == SortNums(NonMissing(col))
      n == Len(sorted)
  IN IF n % 2 = 1 THEN sorted[(n + 1) \div 2]
     ELSE Div(Add(sorted[n \div 2], sorted[n \div 2 + 1]), IntV(2))

ImputationRow(r, value) ==
  PlanRows[r].key = "imputation_strategy" /\ PlanRows[r].value = Str(value)

\* C5: an imputation_strategy step "mean" ("median") replaces every missing
\* entry of its column by the mean (median) of the non-missing values the
\* stage was fitted on, and a step "constant:1" replaces it by 1 cast to the
\* feature's declared type
C5_ImputationFollowsStrategy ==
  (Ran /\ last.ok) =>
    \A r \in 1..Len(PlanRows) :
      LET s == PlanRows[r].transform_order
          name == PlanRows[r].feature_name
      IN /\ ImputationRow(r, <<"mean">>) =>
              StageOut(s, name) = Filled(StageIn(s, name), MeanOf(StageTrain(s, name)))
         /\ ImputationRow(r, <<"median">>) =>
              StageOut(s, name) = Filled(StageIn(s, name), MedianOf(StageTrain(s, name)))
         /\ ImputationRow(r, <<"constant", ":", "1">>) =>
              StageOut(s, name) =
                Filled(StageIn(s, name),
                       IF PlanRows[r].type.s \in StringTypes THEN Str(<<"1">>)
                       ELSE IntV(1))

\* the part of C5 the code keeps: "constant:1" on a numeric feature fills
\* with 1
ConstantImputationFills ==
  (Ran /\ last.ok) =>
    \A r \in 1..Len(PlanRows) :
      ImputationRow(r, <<"constant", ":", "1">>) =>
        StageOut(PlanRows[r].transform_order, PlanRows[r].feature_name) =
          Filled(StageIn(PlanRows[r].transform_order, PlanRows[r].feature_name), IntV(1))

StepKeyNames ==
  {"transformation", "limits", "imputation_strategy", "discretizer", "scaler", "weight"}

UnknownKeyRow(r) == PlanRows[r].key \notin StepKeyNames

PaddingRow(r) ==
  PlanRows[r].key = "transformation" /\ PlanRows[r].value = Str(<<"identity">>)

\* the table the call was given, restricted to the configured features
GivenColumns ==
  [j \in 1..Len(features_config) |-> ColumnOf(last.X, Get(features_config[j], "name"))]

\* C8: a step with a key other than the six step keys is interpreted as an
\* Identity and raises nothing: its stage returns the feature's column as
\* it was given, and when every step of the configuration is such a step,
\* fit and transform complete and the pre-cast table is the given one
C8_UnknownKeyIsIdentity ==
  Ran =>
    /\ \A r \in 1..Len(PlanRows) :
         (UnknownKeyRow(r) /\ Applied(r)) =>
           StageOut(PlanRows[r].transform_order, PlanRows[r].feature_name) =
             StageIn(PlanRows[r].transform_order, PlanRows[r].feature_name)
    /\ ((\A r \in 1..Len(PlanRows) : UnknownKeyRow(r) \/ PaddingRow(r)) /\ ~HasInactive) =>
         /\ last.ok
         /\ last.precast.columns = GivenColumns

\* fit_transform completed on two features, one declaring an unknown key
\* only, on a table with missing entries, which came through
C8_Witness ==
  /\ Ran
  /\ last.ok
  /\ Len(features_config) = 2
  /\ Len(PlanRows) = 2
  /\ \E r \in 1..Len(PlanRows) : UnknownKeyRow(r)
  /\ \E r \in 1..Len(PlanRows) : PaddingRow(r)
  /\ \E i \in 1..2 : last.precast.columns[i].values = <<IntV(2), IntV(4), NaN, NaN>>

UnknownScalerRow(r) ==
  /\ PlanRows[r].key = "scaler"
  /\ PlanRows[r].value \notin {Str(<<"min_max">>), Str(<<"standard">>), Str(<<"robust">>)}

UnknownImputationRow(r) ==
  /\ PlanRows[r].key = "imputation_strategy"
  /\ PlanRows[r].value \notin {Str(<<"mean">>), Str(<<"median">>)}
  /\ Split(StrOf(PlanRows[r].value), ":")[1] # <<"constant">>

\* C10: a scaler step with an unknown or null strategy and an
\* imputation_strategy step with an unknown strategy are Identity: their
\* stage returns the column as it was given, missing entries included, and
\* when every step of the configuration is such a step, fit and transform
\* complete and the pre-cast table is the given one
C10_UnknownStrategyIsIdentity ==
  Ran =>
    /\ \A r \in 1..Len(PlanRows) :
         ((UnknownScalerRow(r) \/ UnknownImputationRow(r)) /\ Applied(r)) =>
           StageOut(PlanRows[r].transform_order, PlanRows[r].feature_name) =
             StageIn(PlanRows[r].transform_order, PlanRows[r].feature_name)
    /\ ((\A r \in 1..Len(PlanRows) :
           UnknownScalerRow(r) \/ UnknownImputationRow(r) \/ PaddingRow(r))
        /\ ~HasInactive) =>
         /\ last.ok
         /\ last.precast.columns = GivenColumns

\* the part of C10 the code keeps: the scaler steps
UnknownScalerIsIdentity ==
  Ran =>
    /\ \A r \in 1..Len(PlanRows) :
         (UnknownScalerRow(r) /\ Applied(r)) =>
           StageOut(PlanRows[r].transform_order, PlanRows[r].feature_name) =
             StageIn(PlanRows[r].transform_order, PlanRows[r].feature_name)
    /\ ((\A r \in 1..Len(PlanRows) : UnknownScalerRow(r) \/ PaddingRow(r))
        /\ ~HasInactive) =>
         /\ last.ok
         /\ last.precast.columns = GivenColumns

(***************************************************************************)
(* Clipping                                                                *)
(***************************************************************************)
LimitsRow(r) == PlanRows[r].key = "limits" /\ Applied(r)

Low(r) == PlanRows[r].value.items[1]
High(r) == PlanRows[r].value.items[2]

\* x clipped into [low, high], for low <= high
ClippedInto(x, low, high) ==
  IF Less(x, low) THEN low ELSE IF Less(high, x) THEN high ELSE x

ReversedLimitsAreSwapped ==
  Ran =>
    \A r \in 1..Len(PlanRows) :
      (LimitsRow(r) /\ Less(High(r), Low(r))) =>
        LET in == StageIn(PlanRows[r].transform_order, PlanRows[r].feature_name)
            out == StageOut(PlanRows[r].transform_order, PlanRows[r].feature_name)
        IN \A i \in 1..Len(out) :
             IF IsNaN(in[i]) THEN IsNaN(out[i])
             ELSE out[i] = ClippedInto(in[i], High(r), Low(r))

(***************************************************************************)
(* Configuration errors                                                    *)
(***************************************************************************)
ValidTransformations ==
  {Str(<<n>>) : n \in {"log", "log10", "log1p", "exp", "square", "sqrt", "identity"}}

\* a string of the form strategy:n_bins, n_bins a numeral
StrategyAndBins(value) ==
  /\ value.k = "str"
  /\ Len(value.s) >= 3
  /\ value.s[1] # ":"
  /\ value.s[2] = ":"
  /\ \A i \in 3..Len(value.s) : value.s[i] \in DigitChars

BadEntry(e) ==
  \/ e.key = "transformation" /\ e.value \notin ValidTransformations
  \/ e.key = "discretizer" /\ ~StrategyAndBins(e.value)

HasConfigError ==
  \E j \in 1..Len(features_config) : \E i \in 1..Len(features_config[j]) :
    BadEntry(features_config[j][i])

\* C9: when a feature declares an unknown transformation name or a
\* discretizer value that is not strategy:n_bins, fit raises while the
\* pipeline is assembled: no stage has been fitted on data and no pipeline
\* has been installed on the instance
C9_ConfigErrorIsFatal ==
  (HasConfigError /\ last.op \in {"fit", "fit_transform"}) =>
    /\ ~last.ok
    /\ last.err = "ValueError"
    /\ ~last.installed
    /\ last.fitrun.inputs = <<>>
    /\ preprocessor = None

\* fit raised on a configuration whose first feature declares a valid
\* transformation and whose second, inactive, feature a discretizer value
\* without n_bins
C9_Witness ==
  /\ last.op = "fit"
  /\ ~last.ok
  /\ Len(features_config) = 2
  /\ Entry("transformation", Str(<<"square">>)) \in Range(features_config[1])
  /\ Entry("active", Bool(FALSE)) \in Range(features_config[2])
  /\ Entry("discretizer", Str(<<"uniform">>)) \in Range(features_config[2])

(***************************************************************************)
(* transform before any fit has returned                                   *)
(***************************************************************************)
\* C11: transform on an instance on which no fit call has returned raises
\* and returns no table
C11_UnfittedTransformFails ==
  (last.op = "transform" /\ fitted_on = None) => ~last.ok

\* the same when no fit call was made at all, or when the only fit calls
\* raised while the pipeline was assembled
NeverInstalledTransformFails ==
  (last.op = "transform" /\ preprocessor = None) =>
    /\ ~last.ok
    /\ last.err \in {"TypeError", "AttributeError"}

(***************************************************************************)
(* The stages of the installed pipeline                                    *)
(***************************************************************************)
Installed == last.op \in {"fit", "fit_transform"} /\ last.installed

PlanOrders == {PlanRows[r].transform_order : r \in 1..Len(PlanRows)}

\* the k-th smallest transform_order of the plan
OrderAt(k) == CHOOSE o \in PlanOrders : Cardinality({q \in PlanOrders : q < o}) = k - 1

RowsOfOrder(o) == {r \in 1..Len(PlanRows) : PlanRows[r].transform_order = o}

Stages == preprocessor.steps

\* the pipeline has one ColumnTransformer per transform_order, in ascending
\* order, each listing one triple per plan row of its order, in ascending
\* feature_order
StagesFollowPlan ==
  PlanOrders # {} =>
    /\ Len(Stages) = Cardinality(PlanOrders)
    /\ \A k \in 1..Len(Stages) :
         /\ Stages[k].cls = "ColumnTransformer"
         /\ Len(Stages[k].transformers) = Cardinality(RowsOfOrder(OrderAt(k)))
         /\ \A i \in 1..Len(Stages[k].transformers) :
              \E r \in RowsOfOrder(OrderAt(k)) :
                /\ Stages[k].transformers[i].name = PlanRows[r].feature_name
                /\ Stages[k].transformers[i].columns = <<PlanRows[r].feature_order>>
         /\ \A i, j \in 1..Len(Stages[k].transformers) :
              i < j => Stages[k].transformers[i].columns[1] <
                         Stages[k].transformers[j].columns[1]

\* every stage after the first was given what the stage before it returned
Chained(run) ==
  \A k \in 2..Len(run.inputs) :
    k - 1 <= Len(run.outputs) /\ run.inputs[k] = run.outputs[k - 1]

\* a call ran the installed pipeline's transform (line 840)
Transformed ==
  last.op \in {"transform", "fit_transform"} /\ last.run.inputs # <<>>

\* C12: the pipeline runs one stage per transform_order in ascending order,
\* the triples of a stage in ascending feature_order; in transform and in
\* fit every stage is given the table the stage before it returned; in fit
\* that table is the output of the stage before as fitted, and the stage is
\* fitted on it
C12_StagesInOrder ==
  /\ Installed => StagesFollowPlan
  /\ Transformed => Chained(last.run)
  /\ Installed => Chained(last.fitrun)
  /\ FitCompleted(last) =>
       /\ Len(last.fitrun.inputs) = Len(Stages)
       /\ \A k \in 1..Len(Stages) :
            /\ Stages[k].cls = "ColumnTransformer" =>
                 StepFit([Stages[k] EXCEPT !.fitted = FALSE, !.transformers_ = <<>>],
                         last.fitrun.inputs[k]) = Ok(Stages[k])
            /\ k < Len(Stages) =>
                 StepTransform(Stages[k], last.fitrun.inputs[k]) =
                   Ok(last.fitrun.outputs[k])
  /\ (Transformed /\ last.run.ok) =>
       /\ Len(last.run.outputs) = Len(Stages)
       /\ \A k \in 1..Len(Stages) :
            StepTransform(Stages[k], last.run.inputs[k]) = Ok(last.run.outputs[k])

\* fit_transform returned after a clip stage that changed the table and a
\* scaling stage fitted on the clipped table
C12_Witness ==
  /\ Ran
  /\ last.ok
  /\ Len(features_config) = 2
  /\ Len(Stages) = 2
  /\ Stages[1].transformers[1].t.cls = "FeatureClipper"
  /\ Stages[2].transformers[1].t.cls = "FeatureScaler"
  /\ last.fitrun.outputs[1] # last.fitrun.inputs[1]
  /\ last.run.inputs[2] = last.run.outputs[1]

(***************************************************************************)
(* Column routing                                                          *)
(***************************************************************************)
\* the triple's positional selector designates the column of the triple's
\* feature in the table restricted to the active features
Aligned(triple) ==
  /\ triple.columns[1] + 1 <= Len(ActiveNames)
  /\ ActiveNames[triple.columns[1] + 1] = triple.name

\* a stage's output: one column per triple, in the triples' order, named
\* after the triple's feature, with as many rows as the input
OutputPerTriple(stage, in, out) ==
  /\ Len(out) = Len(stage.transformers)
  /\ \A i \in 1..Len(out) :
       /\ out[i].name = stage.transformers[i].name
       /\ Len(out[i].values) = Len(ColumnOf(in, out[i].name).values)

\* C13: at every stage the transform built from a feature's plan row is
\* fitted on and applied to that feature's column: the selector
\* feature_order designates the feature's column in the table restricted to
\* the active features, fit and transform run, and every stage returns one
\* column per triple, in order, named after its feature, with the input's
\* rows
C13_RoutingAligned ==
  (Ran /\ PlanOrders # {}) =>
    /\ \A k \in 1..Len(Stages) : \A i \in 1..Len(Stages[k].transformers) :
         Aligned(Stages[k].transformers[i])
    /\ last.fitrun.ok
    /\ last.run.ok
    /\ \A k \in 1..Len(Stages) :
         OutputPerTriple(Stages[k], last.run.inputs[k], last.run.outputs[k])

\* the part of C13 the code keeps: configurations without inactive features
RoutingAlignedAllActive ==
  (Ran /\ PlanOrders # {} /\ ~HasInactive) =>
    /\ \A k \in 1..Len(Stages) : \A i \in 1..Len(Stages[k].transformers) :
         Aligned(Stages[k].transformers[i])
    /\ last.fitrun.ok
    /\ last.run.ok
    /\ \A k \in 1..Len(Stages) :
         OutputPerTriple(Stages[k], last.run.inputs[k], last.run.outputs[k])

(***************************************************************************)
(* encode and polynomial_degree                                            *)
(***************************************************************************)
NoStepKeys == {"encode", "polynomial_degree"}

\* the configuration with every encode and polynomial_degree entry removed
WithoutNoSteps(cfgs) ==
  [j \in 1..Len(cfgs) |-> SelectSeq(cfgs[j], LAMBDA e : e.key \notin NoStepKeys)]

\* the keys of a configuration that precede its i-th key and are neither
\* name, active, type, encode nor polynomial_degree
StepsBefore(config, i) ==
  Cardinality({h \in 1..(i - 1) : config[h].key \notin InertKeys})

\* C14: encode and polynomial_degree produce no plan row and take no
\* transform_order position: a step's transform_order is the number of
\* steps before it in its configuration, encode and polynomial_degree not
\* counted, and the plan is the plan of the configuration with every encode
\* and polynomial_degree entry removed
C14_NoStepKeysLeavePlan ==
  Planned =>
    /\ \A r \in 1..Len(PlanRows) : PlanRows[r].key \notin NoStepKeys
    /\ \A j \in 1..Len(features_config) : \A i \in 1..Len(features_config[j]) :
         features_config[j][i].key \notin InertKeys =>
           \E r \in 1..Len(PlanRows) :
             /\ PlanRows[r].feature_order = j - 1
             /\ PlanRows[r].transform_order = StepsBefore(features_config[j], i)
             /\ PlanRows[r].key = features_config[j][i].key
             /\ PlanRows[r].value = features_config[j][i].value
    /\ PlanRows =
         create_action_plan(WithoutNoSteps(features_config), feature_names.items,
                            feature_active.items, feature_types.items)
    /\ Len(PlanRows) = Len(features_config) * StageCount(features_config)

\* a plan compiled for a feature that declares polynomial_degree before its
\* one step and a feature that declares encode after its first step
C14_Witness ==
  /\ Planned
  /\ Len(features_config) = 2
  /\ Keys(features_config[1])[3] = "polynomial_degree"
  /\ Keys(features_config[1])[4] = "weight"
  /\ Keys(features_config[2])[3] = "transformation"
  /\ Keys(features_config[2])[4] = "encode"
  /\ Len(PlanRows) = 2
  /\ \A r \in 1..Len(PlanRows) : PlanRows[r].transform_order = 0

(***************************************************************************)
(* A configuration without steps                                           *)
(***************************************************************************)
NoSteps == \A j \in 1..Len(features_config) : DeclaredSteps(features_config[j]) = <<>>

\* the columns of the call's table that belong to the active features, in
\* configuration order
ActiveColumns == [i \in 1..Len(ActiveNames) |-> ColumnOf(last.X, ActiveNames[i])]

TypeOfFeature(name) ==
  Get(features_config[CHOOSE j \in 1..Len(features_config) :
                        Get(features_config[j], "name") = name], "type")

\* the call returned the active columns of its table, each entry cast to
\* the feature's declared type and otherwise unchanged
ReturnsActiveColumnsCast ==
  /\ last.ok
  /\ last.precast.columns = ActiveColumns
  /\ ColumnNames(last.result.columns) = ActiveNames
  /\ \A i \in 1..Len(ActiveNames) :
       CastColumn(TypeOfFeature(ActiveNames[i]), ActiveColumns[i].values) =
         Ok(last.result.columns[i].values)

\* the call raised in the final cast, casting a missing entry to an integer
\* type
FinalCastRaised == ~last.ok /\ last.at = "Series.astype" /\ last.run.ok

\* transform was called after a fit that returned, or through fit_transform
TransformAfterFit ==
  \/ last.op = "fit_transform"
  \/ last.op = "transform" /\ fitted_on # None

\* C15: when no feature declares a step the plan is empty, the pipeline is
\* one Identity stage, fit succeeds, and transform returns its table
\* restricted to the active features, the values unchanged apart from the
\* final cast to each feature's declared type
C15_NoStepsIsIdentity ==
  NoSteps =>
    /\ last.op \in {"fit", "fit_transform"} =>
         /\ last.installed
         /\ PlanRows = <<>>
         /\ preprocessor = NewPipeline(<<NewIdentity>>)
         /\ last.fitrun.ok
    /\ last.op = "fit" => last.ok
    /\ TransformAfterFit => (ReturnsActiveColumnsCast \/ FinalCastRaised)

\* the part of C15 the code keeps: configurations without inactive features
NoStepsAllActiveIsIdentity ==
  (NoSteps /\ ~HasInactive) =>
    /\ last.op \in {"fit", "fit_transform"} =>
         /\ last.installed
         /\ PlanRows = <<>>
         /\ preprocessor = NewPipeline(<<NewIdentity>>)
         /\ last.fitrun.ok
    /\ last.op = "fit" => last.ok
    /\ TransformAfterFit => (ReturnsActiveColumnsCast \/ FinalCastRaised)

\* with an inactive feature and no step, fit returns and transform raises in
\* the final cast: KeyError for the inactive feature's column, unless an
\* earlier column's cast to an integer type raised first
NoStepsInactiveRaises ==
  (NoSteps /\ HasInactive /\ TransformAfterFit) =>
    /\ ~last.ok
    /\ last.run.ok
    /\ \/ last.err = "KeyError" /\ last.at = "PreProcessor.__cast_columns"
       \/ last.at = "Series.astype"

(***************************************************************************)
(* Writes in place.  FeatureWeigher.transform assigns the weighted column  *)
(* to its argument (lines 617-619); whether the write reaches the table    *)
(* the argument was selected from depends on the selection being a view    *)
(***************************************************************************)
\* what a transformer's transform leaves in the column it was handed
ArgumentAfter(t, col) ==
  IF t.cls = "FeatureWeigher" /\ FeatureWeigherTransform(t, col).ok
  THEN FeatureWeigherTransform(t, col).val
  ELSE col

\* X[features] (lines 816, 838) selects by a list of labels and the
\* ColumnTransformer hands each transformer X.iloc[:, [o]]: pandas builds a
\* new table for both
SelectionIsView == FALSE

\* the transformer of the stage that is handed column i (1-based) of the
\* stage's table, Identity when there is none
HandedTo(stage, i) ==
  IF \E h \in 1..Len(stage.transformers_) : stage.transformers_[h].columns[1] + 1 = i
  THEN stage.transformers_[CHOOSE h \in 1..Len(stage.transformers_) :
                              stage.transformers_[h].columns[1] + 1 = i].t
  ELSE NewIdentity

\* the table a stage was handed, as the stage's transform left it
StageInputAfter(stage, X) ==
  IF stage.cls = "Identity" \/ ~SelectionIsView THEN X
  ELSE [i \in 1..Len(X) |->
          Column(X[i].name, ArgumentAfter(HandedTo(stage, i), X[i].values))]

\* the caller's table as a transform call left it: the first stage is handed
\* X[features]; every later stage and the final cast are handed a table
\* that dataframe_transformer built
CallerTableAfter(out) ==
  IF out.run.inputs = <<>> \/ ~SelectionIsView THEN out.X
  ELSE [i \in 1..Len(out.X) |->
          IF HasColumn(out.run.inputs[1], out.X[i].name)
          THEN ColumnOf(StageInputAfter(out.run.pipeline.steps[1], out.run.inputs[1]),
                        out.X[i].name)
          ELSE out.X[i]]

(***************************************************************************)
(* transform reads the fitted state                                        *)
(***************************************************************************)
SameAnswer(a, b) == a.ok = b.ok /\ a.err = b.err /\ a.at = b.at /\ a.result = b.result

\* a transform call leaves the pipeline, the three indexes and the caller's
\* table as they were, and answers as the transform call before it did when
\* that was given an equal table
TransformReadsOnly ==
  last'.op = "transform" =>
    /\ preprocessor' = preprocessor
    /\ feature_names' = feature_names
    /\ feature_active' = feature_active
    /\ feature_types' = feature_types
    /\ CallerTableAfter(last') = last'.X
    /\ (last.op = "transform" /\ last.X = last'.X) => SameAnswer(last', last)

\* transform answers as it does on a new instance of the same configuration
\* fitted on the table of the last fit call that returned
AnswersFromLastFit ==
  (last.op = "transform" /\ fitted_on # None) =>
    SameAnswer(last, transform(fit(NewPreProcessor(features_config),
                                   fitted_on.columns).self, last.X))

\* C16: a transform call leaves the fitted pipeline, feature_names,
\* feature_active, feature_types and the caller's table unchanged, two
\* transform calls on equal tables with no fit between them return equal
\* tables, and what transform returns depends only on the configuration and
\* on the table of the most recent fit call that returned
C16_TransformIsReadOnly ==
  [][TransformReadsOnly]_vars /\ []AnswersFromLastFit

\* the frame part of C16 alone
TransformLeavesState == [][TransformReadsOnly]_vars

(***************************************************************************)
(* Normalization of the configuration                                      *)
(***************************************************************************)
\* the configuration with active = True written after the last key of every
\* entry that has no active key, nothing else changed
WithActiveWritten(cfgs) ==
  [j \in 1..Len(cfgs) |->
     IF \E i \in 1..Len(cfgs[j]) : cfgs[j][i].key = "active"
     THEN cfgs[j]
     ELSE cfgs[j] \o <<Entry("active", Bool(TRUE))>>]

\* a fit call writes active = True where it is omitted and nothing else,
\* and writes nothing on a configuration it has written before; no other
\* call writes the configuration
NormalizationStep ==
  /\ last'.op \in {"fit", "fit_transform"} =>
       /\ features_config' = WithActiveWritten(features_config)
       /\ WithActiveWritten(features_config') = features_config'
       /\ feature_names # None => features_config' = features_config
  /\ last'.op = "transform" => features_config' = features_config

\* once a fit call has compiled a plan, a fit call compiles the same plan
SamePlanStep ==
  (last.op \in {"fit", "fit_transform"} /\ last.plan # None
     /\ last'.op \in {"fit", "fit_transform"}) =>
    last'.plan = last.plan

\* another fit on the instance, on its written configuration, compiles the
\* plan the last fit compiled
SecondFitSamePlan ==
  (last.op \in {"fit", "fit_transform"} /\ last.plan # None) =>
    fit(NewPreProcessor(features_config), last.X).plan = last.plan

\* C17: fit writes active = True into every configuration entry that omits
\* active and changes no other key or value; writing again changes nothing;
\* a second fit on the instance compiles the same plan as the first
C17_NormalizationIdempotent ==
  [][NormalizationStep /\ SamePlanStep]_vars /\ []SecondFitSamePlan

\* a fit has written active = True after the two steps of the first feature
\* and compiled a plan of two stages
C17_Witness ==
  /\ last.op = "fit"
  /\ last.plan # None
  /\ Len(features_config) = 2
  /\ Len(features_config[1]) = 5
  /\ features_config[1][5] = Entry("active", Bool(TRUE))
  /\ features_config[1][3].key \notin InertKeys
  /\ features_config[1][4].key \notin InertKeys
  /\ Get(features_config[2], "active") = Bool(FALSE)
  /\ Len(PlanRows) = 4

====
